---- MODULE Spec2Model ----
(***************************************************************************)
(* A model of the chess assistant's hierarchical task network              *)
(* (task-network.py: ChessTaskNetwork) and of the agent in front of it     *)
(* (agent-class: ChessAgent).  The rules library (boards, legal moves,     *)
(* notation) and the UCI engine are collaborators: a board is the data the *)
(* code reads from it, the engine is a nondeterministic oracle.            *)
(*                                                                         *)
(* Text that the code inspects character by character (the query, move     *)
(* notation, a score's printed form) is a sequence of one-character        *)
(* strings; Text(cs) is the string it spells.                              *)
(***************************************************************************)
EXTENDS Integers, Sequences, FiniteSets, TLC

VARIABLES
    long_term_goals,    \* ChessTaskNetwork.long_term_goals
    medium_term_goals,  \* ChessTaskNetwork.medium_term_goals
    short_term_goals,   \* ChessTaskNetwork.short_term_goals
    engine,             \* the engine process: [quits |-> times quit() was invoked]
    last,               \* the last operation: [op, fen, query, outcome, calls]
    response,           \* what the last operation returned (NoResponse when it raised)
    tierStatus,         \* ghost: how far the last analyze_position got with each tier
                        \* (cleared / partial / rebuilt) and, when it returned, the
                        \* engine's answer it built them from
    arg                 \* the input of the operation under study (pure-function specifications)

vars == <<long_term_goals, medium_term_goals, short_term_goals, engine, last,
          response, tierStatus, arg>>

----------------------------------------------------------------------------
(* Text: str.lower, the `in` operator on strings, str.split *)

UpperLetters == <<"A", "B", "C", "D", "E", "F", "G", "H", "I", "J", "K", "L", "M",
                  "N", "O", "P", "Q", "R", "S", "T", "U", "V", "W", "X", "Y", "Z">>

LowerLetters == <<"a", "b", "c", "d", "e", "f", "g", "h", "i", "j", "k", "l", "m",
                  "n", "o", "p", "q", "r", "s", "t", "u", "v", "w", "x", "y", "z">>

DigitChars == <<"0", "1", "2", "3", "4", "5", "6", "7", "8", "9">>

Range(s) == {s[i] : i \in DOMAIN s}

IsUpper(c) == c \in Range(UpperLetters)

IsAlpha(c) == c \in Range(UpperLetters) \cup Range(LowerLetters)

IsDigit(c) == c \in Range(DigitChars)

IsSpace(c) == c = " "

IndexOf(c, s) == CHOOSE i \in DOMAIN s : s[i] = c

CharLower(c) == IF IsUpper(c) THEN LowerLetters[IndexOf(c, UpperLetters)] ELSE c

\* str.lower()
RECURSIVE StrLower(_)
StrLower(s) == IF s = <<>> THEN <<>> ELSE <<CharLower(Head(s))>> \o StrLower(Tail(s))

\* `kw in s` on strings: kw occurs as a contiguous substring
Contains(s, kw) ==
    \E i \in 1..(Len(s) - Len(kw) + 1) : SubSeq(s, i, i + Len(kw) - 1) = kw

RECURSIVE SplitFrom(_, _, _, _)
SplitFrom(s, i, cur, acc) ==
    IF i > Len(s)
    THEN IF cur = <<>> THEN acc ELSE Append(acc, cur)
    ELSE IF IsSpace(s[i])
         THEN SplitFrom(s, i + 1, <<>>, IF cur = <<>> THEN acc ELSE Append(acc, cur))
         ELSE SplitFrom(s, i + 1, Append(cur, s[i]), acc)

\* str.split(): the maximal runs of non-space characters
Split(s) == SplitFrom(s, 1, <<>>, <<>>)

RECURSIVE Text(_)
Text(cs) == IF cs = <<>> THEN "" ELSE cs[1] \o Text(Tail(cs))

RECURSIVE JoinWords(_)
JoinWords(ws) ==
    IF ws = <<>> THEN <<>>
    ELSE IF Len(ws) = 1 THEN ws[1]
    ELSE ws[1] \o <<" ">> \o JoinWords(Tail(ws))

----------------------------------------------------------------------------
(* Numbers in print: str(score) and int(text) *)

RECURSIVE NatChars(_)
NatChars(n) ==
    IF n < 10 THEN <<DigitChars[n + 1]>>
    ELSE NatChars(n \div 10) \o <<DigitChars[(n % 10) + 1]>>

IntChars(n) == IF n < 0 THEN <<"-">> \o NatChars(0 - n) ELSE NatChars(n)

Cp(n) == [kind |-> "cp", v |-> n]

Mate(n) == [kind |-> "mate", v |-> n]

\* str(score): a centipawn score prints as a signed integer ("+250", "-40", "0"),
\* a mate score as "#+3" / "#-3"
ScoreStr(score) ==
    IF score.kind = "cp"
    THEN IF score.v > 0 THEN <<"+">> \o NatChars(score.v) ELSE IntChars(score.v)
    ELSE IF score.v > 0 THEN <<"#", "+">> \o NatChars(score.v)
         ELSE <<"#", "-">> \o NatChars(0 - score.v)

RECURSIVE DigitsValue(_)
DigitsValue(cs) ==
    IF cs = <<>> THEN 0
    ELSE 10 * DigitsValue(SubSeq(cs, 1, Len(cs) - 1)) + (IndexOf(cs[Len(cs)], DigitChars) - 1)

AllDigits(cs) == cs # <<>> /\ \A i \in DOMAIN cs : IsDigit(cs[i])

\* a parser that refuses a leading sign
PyIntUnsigned(cs) ==
    IF AllDigits(cs) THEN [ok |-> TRUE, value |-> DigitsValue(cs)]
    ELSE [ok |-> FALSE, value |-> 0]

\* int(text): an optional sign and at least one digit, else ValueError
PyInt(cs) ==
    IF cs # <<>> /\ cs[1] \in {"+", "-"} /\ AllDigits(Tail(cs))
    THEN [ok |-> TRUE, value |-> IF cs[1] = "-" THEN 0 - DigitsValue(Tail(cs))
                                 ELSE DigitsValue(Tail(cs))]
    ELSE IF AllDigits(cs) THEN [ok |-> TRUE, value |-> DigitsValue(cs)]
    ELSE [ok |-> FALSE, value |-> 0]

----------------------------------------------------------------------------
(* The rules collaborator: squares, pieces, boards, moves *)

FileChars == <<"a", "b", "c", "d", "e", "f", "g", "h">>

RankChars == <<"1", "2", "3", "4", "5", "6", "7", "8">>

\* chess.square(file, rank): a1 = 0, b1 = 1, ..., h8 = 63
Sq(f, r) == (r - 1) * 8 + (IndexOf(f, FileChars) - 1)

\* chess.square_rank
SquareRank(sq) == sq \div 8

SquareName(sq) == <<FileChars[(sq % 8) + 1], RankChars[(sq \div 8) + 1]>>

PieceTypes == {"PAWN", "KNIGHT", "BISHOP", "ROOK", "QUEEN", "KING"}

Piece(t, c) == [piece_type |-> t, color |-> c]

\* piece_at() of an empty square is None
NoPiece == [piece_type |-> "NONE", color |-> "NONE"]

Opponent(c) == IF c = "WHITE" THEN "BLACK" ELSE "WHITE"

PieceAt(board, sq) == IF sq \in DOMAIN board.pieces THEN board.pieces[sq] ELSE NoPiece

\* bin(board.occupied).count('1')
OccupiedCount(board) == Cardinality(DOMAIN board.pieces)

\* board.pieces(piece_type, color): the squares holding such a piece
PiecesOf(board, t, c) == {sq \in DOMAIN board.pieces : board.pieces[sq] = Piece(t, c)}

\* board.is_capture(move): an enemy piece on the target square, or en passant
IsCapture(board, move) ==
    PieceAt(board, move.to_square).color = Opponent(board.turn) \/ move.en_passant

\* A move as the code reads it: its two notations, its squares, and what the
\* rules collaborator answers about it (gives_check: is_check() after push)
MakeMove(uci, san, from, to, check, ep) ==
    [uci |-> uci, san |-> san, from_square |-> from, to_square |-> to,
     gives_check |-> check, en_passant |-> ep]

CenterSquares == <<Sq("e", 4), Sq("d", 4), Sq("e", 5), Sq("d", 5)>>

ClassifierSquares == <<Sq("d", 4), Sq("e", 4), Sq("d", 5), Sq("e", 5)>>

StartingSquares(c) ==
    IF c = "WHITE" THEN {Sq("b", 1), Sq("g", 1), Sq("c", 1), Sq("f", 1)}
    ELSE {Sq("b", 8), Sq("g", 8), Sq("c", 8), Sq("f", 8)}

----------------------------------------------------------------------------
(* Sample positions of the session *)

\* 7k/8/8/8/8/8/8/K7 w - - 0 60: bare kings, three legal king moves
BoardKings ==
    [fen |-> "7k/8/8/8/8/8/8/K7 w - - 0 60", turn |-> "WHITE",
     pieces |-> (Sq("a", 1) :> Piece("KING", "WHITE")) @@ (Sq("h", 8) :> Piece("KING", "BLACK")),
     castling |-> {}, fullmove_number |-> 60, halfmove_clock |-> 0,
     legal_moves |-> <<
        MakeMove(<<"a", "1", "b", "2">>, <<"K", "b", "2">>, Sq("a", 1), Sq("b", 2), FALSE, FALSE),
        MakeMove(<<"a", "1", "a", "2">>, <<"K", "a", "2">>, Sq("a", 1), Sq("a", 2), FALSE, FALSE),
        MakeMove(<<"a", "1", "b", "1">>, <<"K", "b", "1">>, Sq("a", 1), Sq("b", 1), FALSE, FALSE)>>]

\* k7/8/8/8/8/8/1r6/K7 w - - 0 60: the only legal move takes the rook
BoardCapture ==
    [fen |-> "k7/8/8/8/8/8/1r6/K7 w - - 0 60", turn |-> "WHITE",
     pieces |-> (Sq("a", 1) :> Piece("KING", "WHITE")) @@ (Sq("b", 2) :> Piece("ROOK", "BLACK"))
                @@ (Sq("a", 8) :> Piece("KING", "BLACK")),
     castling |-> {}, fullmove_number |-> 60, halfmove_clock |-> 0,
     legal_moves |-> <<
        MakeMove(<<"a", "1", "b", "2">>, <<"K", "x", "b", "2">>, Sq("a", 1), Sq("b", 2), FALSE, FALSE)>>]

\* k7/8/8/8/8/8/5PPP/r5K1 w - - 0 40: White is mated, no legal move
BoardMated ==
    [fen |-> "k7/8/8/8/8/8/5PPP/r5K1 w - - 0 40", turn |-> "WHITE",
     pieces |-> (Sq("g", 1) :> Piece("KING", "WHITE")) @@ (Sq("f", 2) :> Piece("PAWN", "WHITE"))
                @@ (Sq("g", 2) :> Piece("PAWN", "WHITE")) @@ (Sq("h", 2) :> Piece("PAWN", "WHITE"))
                @@ (Sq("a", 1) :> Piece("ROOK", "BLACK")) @@ (Sq("a", 8) :> Piece("KING", "BLACK")),
     castling |-> {}, fullmove_number |-> 40, halfmove_clock |-> 0,
     legal_moves |-> <<>>]

\* chess.Board(None) is the empty board
BoardEmpty ==
    [fen |-> "8/8/8/8/8/8/8/8 w - - 0 1", turn |-> "WHITE", pieces |-> <<>>,
     castling |-> {}, fullmove_number |-> 1, halfmove_clock |-> 0, legal_moves |-> <<>>]

SampleBoards == {BoardKings, BoardCapture, BoardMated}

EmptyFen == ""

NoneFen == "<None>"

InvalidFen == "not a fen"

Fens == {b.fen : b \in SampleBoards} \cup {EmptyFen, NoneFen, InvalidFen}

\* chess.Board(fen): ValueError unless the text is a position
ParsesAsBoard(fen) == fen = NoneFen \/ \E b \in SampleBoards : b.fen = fen

BoardOf(fen) == IF fen = NoneFen THEN BoardEmpty ELSE CHOOSE b \in SampleBoards : b.fen = fen

----------------------------------------------------------------------------
(* Goals and the three tiers *)

\* ChessGoal.__init__; made_for is a ghost field: the position the goal was made for
ChessGoal(description, priority, move_sequence, fen) ==
    [description |-> description, priority |-> priority, move_sequence |-> move_sequence,
     completed |-> FALSE, progress |-> 0, made_for |-> fen]

\* sorted(xs, key=lambda g: g.priority, reverse=True): stable, highest priority first
InsertByPriority(sorted, x) ==
    LET k == Cardinality({i \in DOMAIN sorted : sorted[i].priority >= x.priority})
    IN  SubSeq(sorted, 1, k) \o <<x>> \o SubSeq(sorted, k + 1, Len(sorted))

RECURSIVE SortFrom(_, _)
SortFrom(xs, acc) ==
    IF xs = <<>> THEN acc ELSE SortFrom(Tail(xs), InsertByPriority(acc, Head(xs)))

SortedByPriority(xs) == SortFrom(xs, <<>>)

\* the goals a condition list emits, in order
RECURSIVE Emit(_)
Emit(items) ==
    IF items = <<>> THEN <<>>
    ELSE (IF Head(items).when THEN <<Head(items).goal>> ELSE <<>>) \o Emit(Tail(items))

ControlledCenter(board) ==
    Cardinality({i \in DOMAIN CenterSquares :
                    /\ PieceAt(board, CenterSquares[i]) # NoPiece
                    /\ PieceAt(board, CenterSquares[i]).color = board.turn})

DevelopedPieces(board) ==
    Cardinality({sq \in PiecesOf(board, "KNIGHT", board.turn)
                        \cup PiecesOf(board, "BISHOP", board.turn) :
                 sq \notin StartingSquares(board.turn)})

KingOnHomeSquare(board) ==
    \/ board.turn = "WHITE" /\ PiecesOf(board, "KING", "WHITE") = {Sq("e", 1)}
    \/ board.turn = "BLACK" /\ PiecesOf(board, "KING", "BLACK") = {Sq("e", 8)}

\* _identify_medium_term_goals: what it appends to medium_term_goals
IdentifyMediumTermGoals(board) ==
    Emit(<<
      [when |-> ControlledCenter(board) < 2,
       goal |-> ChessGoal("Control the center with pawns or pieces", 5, <<>>, board.fen)],
      [when |-> board.fullmove_number <= 10 /\ DevelopedPieces(board) < 4,
       goal |-> ChessGoal("Develop minor pieces", 4, <<>>, board.fen)],
      [when |-> KingOnHomeSquare(board) /\ board.turn \in board.castling,
       goal |-> ChessGoal("Castle to safety", 6, <<>>, board.fen)]>>)

MaterialValue(t) ==
    CASE t = "PAWN" -> 1 [] t = "KNIGHT" -> 3 [] t = "BISHOP" -> 3
      [] t = "ROOK" -> 5 [] t = "QUEEN" -> 9 [] t = "KING" -> 0

RECURSIVE SumOver(_, _)
SumOver(S, f) ==
    IF S = {} THEN 0 ELSE LET x == CHOOSE x \in S : TRUE IN f[x] + SumOver(S \ {x}, f)

\* _count_material
CountMaterial(board, color) ==
    SumOver({"PAWN", "KNIGHT", "BISHOP", "ROOK", "QUEEN"},
            [t \in PieceTypes |-> Cardinality(PiecesOf(board, t, color)) * MaterialValue(t)])

\* phases told by the threshold of ten alone
GamePhaseWithoutOpening(board) ==
    IF OccupiedCount(board) > 10 THEN "middlegame" ELSE "endgame"

GamePhase(board) ==
    IF OccupiedCount(board) > 24 THEN "opening"
    ELSE IF OccupiedCount(board) > 10 THEN "middlegame"
    ELSE "endgame"

MaterialAdvantage(board) ==
    LET advantage == CountMaterial(board, "WHITE") - CountMaterial(board, "BLACK")
    IN  IF board.turn = "WHITE" THEN advantage ELSE 0 - advantage

\* _identify_long_term_goals: what it appends to long_term_goals; evaluation is
\* the printed score of the best line
IdentifyLongTermGoals(board, evaluation) ==
    IF GamePhase(board) = "opening"
    THEN <<ChessGoal("Develop pieces and control the center", 8, <<>>, board.fen),
           ChessGoal("Ensure king safety", 7, <<>>, board.fen)>>
    ELSE IF GamePhase(board) = "middlegame"
    THEN IF MaterialAdvantage(board) > 3
         THEN <<ChessGoal("Trade pieces to simplify into a winning endgame", 8, <<>>, board.fen)>>
         ELSE IF MaterialAdvantage(board) < -3
         THEN <<ChessGoal("Create complications and tactical opportunities", 8, <<>>, board.fen)>>
         ELSE <<ChessGoal("Improve piece positioning and create weaknesses in opponent's camp",
                          7, <<>>, board.fen)>>
    ELSE <<ChessGoal("Activate king and create passed pawns", 8, <<>>, board.fen)>>
         \o (IF PyInt(evaluation).ok /\ PyInt(evaluation).value > 200
             THEN <<ChessGoal("Exchange pieces but not pawns", 7, <<>>, board.fen)>>
             ELSE <<>>)

----------------------------------------------------------------------------
(* The evaluation collaborator: engine.analyse as an oracle *)

\* multipv=3 in analyze_position
MultiPV == 3

Min(a, b) == IF a < b THEN a ELSE b

\* the scores the oracle answers with
ScoreSamples == {Cp(250), Mate(2)}

\* One info per candidate line: the line's first move (pv is empty when the info
\* carries no line) and its relative score.  The engine ranks MultiPV distinct
\* legal moves, or all of them when there are fewer (here: the legal moves in
\* their order, starting from any of them); for a finished game it reports one
\* info with no line.  Only the best line's score is read by the code.
MultiPvResults(board) ==
    LET n == Len(board.legal_moves)
        k == Min(MultiPV, n)
    IN  IF n = 0
        THEN {<<[pv |-> <<>>, score |-> sc]>> : sc \in ScoreSamples}
        ELSE {[i \in 1..k |-> [pv |-> IF i = miss THEN <<>>
                                      ELSE <<board.legal_moves[((first + i - 2) % n) + 1]>>,
                               score |-> sc]] :
                first \in 1..n, miss \in 0..k, sc \in ScoreSamples}

\* engine.analyse(board, limit, multipv=3): raises when the process is gone
\* (always, once quit() was invoked), else returns a list of infos
AnalyseMultiPv(board, eng) ==
    {[raised |-> TRUE, lines |-> <<>>]}
    \cup (IF eng.quits = 0
          THEN {[raised |-> FALSE, lines |-> l] : l \in MultiPvResults(board)}
          ELSE {})

----------------------------------------------------------------------------
(* analyze_position *)

\* a rebuild that appends to what the tier held
KeptTier(old) == old

\* "Clear previous goals": the tier a rebuild starts from
ClearedTier(old) == <<>>

\* priorities counted upwards from the best line
ShortTermPriorityAscending(i) == i + 1

\* priority=3-i for the candidate of rank i (0-based)
ShortTermPriority(i) == 3 - i

\* a goal that names the move and carries none
ShortTermGoalWithoutMoves(board, i, info) ==
    ChessGoal("Play " \o Text(info.pv[1].san), 3 - i, <<>>, board.fen)

\* the goal appended for the candidate line of rank i
ShortTermGoal(board, i, info) ==
    ChessGoal("Play " \o Text(info.pv[1].san), ShortTermPriority(i),
              <<Text(info.pv[1].uci)>>, board.fen)

\* the number of loop iterations that complete: pv_info["pv"][0] raises on the
\* first info without a line
CompletedIterations(lines) ==
    IF \E i \in DOMAIN lines : lines[i].pv = <<>>
    THEN (CHOOSE i \in DOMAIN lines : lines[i].pv = <<>> /\ \A j \in 1..(i - 1) : lines[j].pv # <<>>) - 1
    ELSE Len(lines)

\* analyze_position(fen) on a parsed board, given the engine's answer and the
\* tiers before the call: the tiers after it, whether it raised, and the ghost
\* status (how far each tier got; the answer, when the call returned)
AnalyzePosition(board, answer, old) ==
    LET n == CompletedIterations(answer.lines)
        short == [i \in 1..n |-> ShortTermGoal(board, i - 1, answer.lines[i])]
    IN  IF answer.raised
        THEN [raised |-> TRUE,
              long |-> ClearedTier(old.long), medium |-> ClearedTier(old.medium),
              short |-> ClearedTier(old.short),
              status |-> [long |-> "cleared", medium |-> "cleared", short |-> "cleared",
                          lines |-> <<>>]]
        ELSE IF n < Len(answer.lines)
        THEN [raised |-> TRUE,
              long |-> ClearedTier(old.long), medium |-> ClearedTier(old.medium),
              short |-> ClearedTier(old.short) \o short,
              status |-> [long |-> "cleared", medium |-> "cleared",
                          short |-> IF n = 0 THEN "cleared" ELSE "partial",
                          lines |-> <<>>]]
        ELSE IF answer.lines = <<>>
        THEN [raised |-> TRUE,
              long |-> ClearedTier(old.long),
              medium |-> ClearedTier(old.medium) \o IdentifyMediumTermGoals(board),
              short |-> ClearedTier(old.short),
              status |-> [long |-> "cleared", medium |-> "rebuilt", short |-> "rebuilt",
                          lines |-> <<>>]]
        ELSE [raised |-> FALSE,
              long |-> ClearedTier(old.long)
                       \o IdentifyLongTermGoals(board, ScoreStr(answer.lines[1].score)),
              medium |-> ClearedTier(old.medium) \o IdentifyMediumTermGoals(board),
              short |-> ClearedTier(old.short) \o short,
              status |-> [long |-> "rebuilt", medium |-> "rebuilt", short |-> "rebuilt",
                          lines |-> answer.lines]]

----------------------------------------------------------------------------
(* get_best_plan *)

\* str.lower() of a strategy text
LowerText(s) ==
    CASE s = "Develop pieces and control the center" -> "develop pieces and control the center"
      [] s = "Ensure king safety" -> "ensure king safety"
      [] s = "Trade pieces to simplify into a winning endgame"
           -> "trade pieces to simplify into a winning endgame"
      [] s = "Create complications and tactical opportunities"
           -> "create complications and tactical opportunities"
      [] s = "Improve piece positioning and create weaknesses in opponent's camp"
           -> "improve piece positioning and create weaknesses in opponent's camp"
      [] s = "Activate king and create passed pawns" -> "activate king and create passed pawns"
      [] s = "Exchange pieces but not pawns" -> "exchange pieces but not pawns"
      [] s = "No specific strategy" -> "no specific strategy"
      [] OTHER -> s

\* _generate_reasoning
GenerateReasoning(strategy, move) ==
    "This move supports our strategy to " \o LowerText(strategy)
        \o " by making immediate progress."

\* every short-term goal, with or without moves
ImmediateMovesUnfiltered(short) == short

\* [g for g in self.short_term_goals if g.move_sequence]
ImmediateMoves(short) == SelectSeq(short, LAMBDA g : g.move_sequence # <<>>)

\* the last of the sorted goals instead of the first
TopMoveLowest(immediate_moves) == SortedByPriority(immediate_moves)[Len(immediate_moves)]

\* sorted(immediate_moves, key=priority, reverse=True)[0]
TopMove(immediate_moves) == SortedByPriority(immediate_moves)[1]

\* get_best_plan on the three tiers
GetBestPlan(long, medium, short) ==
    LET sorted_goals == SortedByPriority(long \o medium \o short)
        immediate_moves == ImmediateMoves(short)
        top_move == TopMove(immediate_moves)
        strategy == IF long # <<>> THEN long[1].description ELSE "No specific strategy"
    IN  IF sorted_goals = <<>>
        THEN [description |-> "No clear plan identified", moves |-> <<>>]
        ELSE IF immediate_moves # <<>>
        THEN [description |-> strategy,
              immediate_action |-> top_move.description,
              moves |-> top_move.move_sequence,
              reasoning |-> GenerateReasoning(strategy, top_move.description)]
        ELSE [description |-> "No clear moves identified", moves |-> <<>>]

----------------------------------------------------------------------------
(* _piece_name, _identify_tactics *)

PieceTypeName(t) ==
    CASE t = "PAWN" -> "pawn" [] t = "KNIGHT" -> "knight" [] t = "BISHOP" -> "bishop"
      [] t = "ROOK" -> "rook" [] t = "QUEEN" -> "queen" [] t = "KING" -> "king"

\* _piece_name
PieceName(piece) ==
    IF piece = NoPiece THEN "empty square"
    ELSE (IF piece.color = "WHITE" THEN "white" ELSE "black") \o " "
         \o PieceTypeName(piece.piece_type)

\* the value table of the capture pass: {...}.get(piece_type, 0)
TacticValue(t) ==
    CASE t = "PAWN" -> 1 [] t = "KNIGHT" -> 3 [] t = "BISHOP" -> 3
      [] t = "ROOK" -> 5 [] t = "QUEEN" -> 9 [] t = "KING" -> 0 [] OTHER -> 0

\* "priority": 5 of a check
CheckPriority == 5

\* the first loop: one entry per legal move that leaves the opponent in check
CheckTactic(board, move) ==
    [description |-> "Check with " \o Text(move.san), moves |-> <<Text(move.uci)>>,
     priority |-> CheckPriority]

\* the second loop's conditions: a capture, a piece on the target square, and
\* the captured piece worth at least the capturing one
EmitsCapture(board, move) ==
    /\ IsCapture(board, move)
    /\ PieceAt(board, move.to_square) # NoPiece
    /\ TacticValue(PieceAt(board, move.to_square).piece_type)
         >= TacticValue(PieceAt(board, move.from_square).piece_type)

CaptureTactic(board, move) ==
    [description |-> "Capture " \o PieceName(PieceAt(board, move.to_square)) \o " with "
                     \o Text(move.san),
     moves |-> <<Text(move.uci)>>,
     priority |-> TacticValue(PieceAt(board, move.to_square).piece_type)]

\* a sort that puts a later entry before the earlier ones of its priority
RECURSIVE SortTiesReversedFrom(_, _)
SortTiesReversedFrom(xs, acc) ==
    IF xs = <<>> THEN acc
    ELSE LET x == Head(xs)
             k == Cardinality({i \in DOMAIN acc : acc[i].priority > x.priority})
         IN  SortTiesReversedFrom(Tail(xs),
                                  SubSeq(acc, 1, k) \o <<x>> \o SubSeq(acc, k + 1, Len(acc)))

SortTacticsTiesReversed(tactics) == SortTiesReversedFrom(tactics, <<>>)

\* sorted(tactics, key=lambda t: t["priority"], reverse=True)
SortTactics(tactics) == SortedByPriority(tactics)

\* the list before sorting: the check pass, then the capture pass
FoundTactics(board) ==
    LET checks == SelectSeq(board.legal_moves, LAMBDA m : m.gives_check)
        captures == SelectSeq(board.legal_moves, LAMBDA m : EmitsCapture(board, m))
    IN  [i \in 1..Len(checks) |-> CheckTactic(board, checks[i])]
        \o [i \in 1..Len(captures) |-> CaptureTactic(board, captures[i])]

\* _identify_tactics
IdentifyTactics(board) == SortTactics(FoundTactics(board))

----------------------------------------------------------------------------
(* _determine_position_type, _suggest_approach *)

OpenPosition == <<"O", "p", "e", "n", " ", "p", "o", "s", "i", "t", "i", "o", "n">>

ClosedPosition == <<"C", "l", "o", "s", "e", "d", " ", "p", "o", "s", "i", "t", "i", "o", "n">>

EndgamePosition == <<"E", "n", "d", "g", "a", "m", "e", " ", "p", "o", "s", "i", "t", "i", "o", "n">>

TacticalPosition == <<"T", "a", "c", "t", "i", "c", "a", "l", " ", "p", "o", "s", "i", "t", "i", "o", "n">>

SemiOpenPosition == <<"S", "e", "m", "i", "-", "o", "p", "e", "n", " ", "p", "o", "s", "i", "t", "i", "o", "n">>

CenterPawns(board) ==
    Cardinality({i \in DOMAIN ClassifierSquares :
                    /\ PieceAt(board, ClassifierSquares[i]) # NoPiece
                    /\ PieceAt(board, ClassifierSquares[i]).piece_type = "PAWN"})

\* a chain that looks at the piece count before the center
PositionTypeOfEndgameFirst(center_pawns, total_pieces, fullmove_number, halfmove_clock) ==
    IF total_pieces <= 10 THEN EndgamePosition
    ELSE IF center_pawns <= 1 THEN OpenPosition
    ELSE IF center_pawns >= 3 THEN ClosedPosition
    ELSE IF fullmove_number > 10 /\ halfmove_clock < 3 THEN TacticalPosition
    ELSE SemiOpenPosition

\* the if/elif chain over (center_pawns, total_pieces, fullmove_number, halfmove_clock)
PositionTypeOf(center_pawns, total_pieces, fullmove_number, halfmove_clock) ==
    IF center_pawns <= 1 THEN OpenPosition
    ELSE IF center_pawns >= 3 THEN ClosedPosition
    ELSE IF total_pieces <= 10 THEN EndgamePosition
    ELSE IF fullmove_number > 10 /\ halfmove_clock < 3 THEN TacticalPosition
    ELSE SemiOpenPosition

\* _determine_position_type
DeterminePositionType(board) ==
    PositionTypeOf(CenterPawns(board), OccupiedCount(board),
                   board.fullmove_number, board.halfmove_clock)

\* the number itself, sign kept
AbsSigned(n) == n

Abs(n) == IF n < 0 THEN 0 - n ELSE n

\* _suggest_approach(evaluation, position_type)
SuggestApproach(evaluation, position_type) ==
    LET eval_str == ScoreStr(evaluation)
        parsed == PyInt(eval_str)
        eval_int == IF parsed.ok THEN parsed.value ELSE 0
    IN  IF ~parsed.ok /\ Contains(eval_str, <<"#">>)
        THEN "There's a forced mate. Follow the tactical sequence."
        ELSE IF Abs(eval_int) < 30
        THEN IF Contains(position_type, <<"O", "p", "e", "n">>)
             THEN "The position is roughly equal and open. Focus on piece activity and creating imbalances."
             ELSE IF Contains(position_type, <<"C", "l", "o", "s", "e", "d">>)
             THEN "The position is roughly equal but closed. Consider a positional maneuver or breakthrough."
             ELSE IF Contains(position_type, <<"T", "a", "c", "t", "i", "c", "a", "l">>)
             THEN "The position is balanced but tactical. Look for combinations and tactical opportunities."
             ELSE "The position is balanced. Focus on improving your worst-placed piece."
        ELSE IF eval_int > 200
        THEN "You have a significant advantage. Simplify the position and avoid unnecessary complications."
        ELSE IF eval_int < -200
        THEN "You are at a disadvantage. Create complications and look for tactical chances."
        ELSE IF eval_int > 0
        THEN "You have a slight advantage. Focus on incrementally improving your position."
        ELSE "You have a slight disadvantage. Focus on equalizing the position through careful defense."

----------------------------------------------------------------------------
(* process_natural_language: the keywords and the branch taken *)

\* the keywords the branch chain looks for in the lower-cased query
Keywords ==
    [best_move |-> <<"b", "e", "s", "t", " ", "m", "o", "v", "e">>,
     what_should_i_play |-> <<"w", "h", "a", "t", " ", "s", "h", "o", "u", "l", "d", " ", "i", " ", "p", "l", "a", "y">>,
     recommend |-> <<"r", "e", "c", "o", "m", "m", "e", "n", "d">>,
     strategy |-> <<"s", "t", "r", "a", "t", "e", "g", "y">>,
     plan |-> <<"p", "l", "a", "n">>,
     tactic |-> <<"t", "a", "c", "t", "i", "c">>,
     opportunity |-> <<"o", "p", "p", "o", "r", "t", "u", "n", "i", "t", "y">>,
     evaluate |-> <<"e", "v", "a", "l", "u", "a", "t", "e">>,
     assessment |-> <<"a", "s", "s", "e", "s", "s", "m", "e", "n", "t">>,
     position |-> <<"p", "o", "s", "i", "t", "i", "o", "n">>,
     explain |-> <<"e", "x", "p", "l", "a", "i", "n">>,
     move |-> <<"m", "o", "v", "e">>]

\* a dispatcher that tests the strategy keywords before the recommendation ones
SelectBranchStrategyFirst(query) ==
    IF Contains(query, Keywords.strategy) \/ Contains(query, Keywords.plan) THEN 2
    ELSE IF Contains(query, Keywords.best_move) \/ Contains(query, Keywords.what_should_i_play)
            \/ Contains(query, Keywords.recommend) THEN 1
    ELSE IF Contains(query, Keywords.tactic) \/ Contains(query, Keywords.opportunity) THEN 3
    ELSE IF Contains(query, Keywords.evaluate) \/ Contains(query, Keywords.assessment)
            \/ Contains(query, Keywords.position) THEN 4
    ELSE IF Contains(query, Keywords.explain) /\ Contains(query, Keywords.move) THEN 5
    ELSE 6

\* the if/elif chain of process_natural_language on the lower-cased query
SelectBranch(query) ==
    IF Contains(query, Keywords.best_move) \/ Contains(query, Keywords.what_should_i_play)
       \/ Contains(query, Keywords.recommend) THEN 1
    ELSE IF Contains(query, Keywords.strategy) \/ Contains(query, Keywords.plan) THEN 2
    ELSE IF Contains(query, Keywords.tactic) \/ Contains(query, Keywords.opportunity) THEN 3
    ELSE IF Contains(query, Keywords.evaluate) \/ Contains(query, Keywords.assessment)
            \/ Contains(query, Keywords.position) THEN 4
    ELSE IF Contains(query, Keywords.explain) /\ Contains(query, Keywords.move) THEN 5
    ELSE 6

----------------------------------------------------------------------------
(* _explain_move and the move named in an "explain" query *)

\* the words of the query that may name a move: at least two characters, a
\* letter and a digit among them
MoveTokens(query) ==
    SelectSeq(Split(query), LAMBDA w : /\ Len(w) >= 2
                                       /\ \E i \in DOMAIN w : IsAlpha(w[i])
                                       /\ \E i \in DOMAIN w : IsDigit(w[i]))

\* chess.Move.from_uci on four characters: two square names, not the same square
WellFormedUci(tok) ==
    /\ tok[1] \in Range(FileChars) /\ tok[2] \in Range(RankChars)
    /\ tok[3] \in Range(FileChars) /\ tok[4] \in Range(RankChars)
    /\ SubSeq(tok, 1, 2) # SubSeq(tok, 3, 4)

TokenSquare(name) == Sq(name[1], IndexOf(name[2], RankChars))

PieceLetter(t) ==
    CASE t = "PAWN" -> <<>> [] t = "KNIGHT" -> <<"N">> [] t = "BISHOP" -> <<"B">>
      [] t = "ROOK" -> <<"R">> [] t = "QUEEN" -> <<"Q">> [] t = "KING" -> <<"K">>

\* board.san of a move the position does not allow but whose origin square
\* holds a piece: still spelled from the piece and the target square
PseudoMove(board, tok, check) ==
    LET from == TokenSquare(SubSeq(tok, 1, 2))
        to == TokenSquare(SubSeq(tok, 3, 4))
        takes == PieceAt(board, to) # NoPiece
        t == PieceAt(board, from).piece_type
    IN  MakeMove(tok,
                 (IF t = "PAWN" /\ takes THEN <<tok[1]>> ELSE PieceLetter(t))
                    \o (IF takes THEN <<"x">> ELSE <<>>) \o SubSeq(tok, 3, 4)
                    \o (IF check THEN <<"+">> ELSE <<>>),
                 from, to, check, FALSE)

StripSuffix(san) ==
    IF san # <<>> /\ san[Len(san)] \in {"+", "#"} THEN SubSeq(san, 1, Len(san) - 1) ELSE san

\* board.parse_san: the legal moves the text spells
SanMatches(board, tok) ==
    {i \in DOMAIN board.legal_moves : StripSuffix(board.legal_moves[i].san) = StripSuffix(tok)}

\* What the explain branch does with the query before it asks the engine:
\* explain a move it parsed ("move"), fall back to the engine's best move
\* ("fallback": no token, or ValueError), or fail on an AssertionError of san()
\* for a move from an empty square ("assert")
ExplainTargets(board, query) ==
    LET moves == MoveTokens(query)
        tok == moves[1]
        legal == {i \in DOMAIN board.legal_moves : board.legal_moves[i].uci = tok}
    IN  IF moves = <<>> THEN {[kind |-> "fallback"]}
        ELSE IF Len(tok) = 4
        THEN IF ~WellFormedUci(tok) THEN {[kind |-> "fallback"]}
             ELSE IF legal # {}
             THEN {[kind |-> "move", move |-> board.legal_moves[CHOOSE i \in legal : TRUE]]}
             ELSE IF PieceAt(board, TokenSquare(SubSeq(tok, 1, 2))) = NoPiece
             THEN {[kind |-> "assert"]}
             ELSE {[kind |-> "move", move |-> PseudoMove(board, tok, c)] : c \in BOOLEAN}
        ELSE IF SanMatches(board, tok) # {}
        THEN {[kind |-> "move",
               move |-> board.legal_moves[CHOOSE i \in SanMatches(board, tok) : TRUE]]}
        ELSE {[kind |-> "fallback"]}

\* engine.analyse(board, limit) with no multipv, read for result["pv"][0]: one
\* info, or the process is gone
AnalyseBestMove(board, eng) ==
    {[raised |-> TRUE, pv |-> <<>>]}
    \cup (IF eng.quits = 0
          THEN {[raised |-> FALSE, pv |-> pv] :
                  pv \in IF board.legal_moves = <<>> THEN {<<>>}
                         ELSE {<<board.legal_moves[i]>> : i \in DOMAIN board.legal_moves}}
          ELSE {})

\* engine.analyse(board, limit) with no multipv, read for result["score"]
AnalyseScore(eng) ==
    {[raised |-> TRUE, score |-> Cp(0)]}
    \cup (IF eng.quits = 0 THEN {[raised |-> FALSE, score |-> sc] : sc \in ScoreSamples}
          ELSE {})

\* promotion_rank = 7 if piece.color == chess.WHITE else 0
PromotionRank(color) == IF color = "WHITE" THEN 7 ELSE 0

\* the sentences of the explanation, in the order they are appended
ExplanationClauses(board, move) ==
    LET piece == PieceAt(board, move.from_square)
        piece_type == IF piece # NoPiece THEN PieceName(piece) ELSE "Unknown"
    IN  <<IF IsCapture(board, move)
          THEN "The move " \o Text(move.san) \o " captures a "
               \o PieceName(PieceAt(board, move.to_square)) \o "."
          ELSE "The move " \o Text(move.san) \o " repositions your " \o piece_type \o ".">>
        \o (IF move.gives_check THEN <<"It gives check to the opponent's king.">> ELSE <<>>)
        \o (IF piece # NoPiece /\ piece.piece_type = "PAWN"
            THEN (IF move.to_square \in Range(ClassifierSquares)
                  THEN <<"This move helps control the center.">> ELSE <<>>)
                 \o (IF SquareRank(move.to_square) = PromotionRank(piece.color) - 1
                     THEN <<"This pawn is now one step away from promotion.">> ELSE <<>>)
            ELSE IF piece # NoPiece /\ piece.piece_type \in {"KNIGHT", "BISHOP"}
                    /\ move.from_square \in StartingSquares("WHITE") \cup StartingSquares("BLACK")
            THEN <<"This develops a piece from its starting position.">>
            ELSE <<>>)

\* _explain_move, given the engine's answers for the position after the move
\* (asked first) and before it
ExplainMove(board, move, after, before) ==
    IF after.raised THEN [raised |-> TRUE, calls |-> 1]
    ELSE IF before.raised THEN [raised |-> TRUE, calls |-> 2]
    ELSE [raised |-> FALSE, calls |-> 2,
          response |-> [type |-> "move_explanation",
                        move |-> Text(move.san),
                        explanation |-> ExplanationClauses(board, move),
                        evaluation_before |-> Text(ScoreStr(before.score)),
                        evaluation_after |-> Text(ScoreStr(after.score))]]

----------------------------------------------------------------------------
(* The answers of process_natural_language's branches *)

HasKey(r, k) == k \in DOMAIN r

\* branch 1: "best move" / "what should i play" / "recommend"
RecommendationResponse(plan) ==
    [type |-> "move_recommendation", content |-> plan.immediate_action,
     reasoning |-> plan.reasoning, strategy |-> plan.description]

\* branch 6: the default
DefaultResponse(plan) ==
    [type |-> "move_recommendation", content |-> plan.immediate_action,
     reasoning |-> plan.reasoning]

\* branch 2: "strategy" / "plan"
StrategyResponse(long) ==
    LET strategies == SortedByPriority(long)
    IN  IF long = <<>>
        THEN [type |-> "strategy_advice",
              content |-> "No clear strategic goals identified for this position."]
        ELSE [type |-> "strategy_advice", content |-> strategies[1].description,
              additional_options |-> [i \in 1..(Len(strategies) - 1) |->
                                         strategies[i + 1].description]]

\* branch 3: "tactic" / "opportunity"
TacticalResponse(board) ==
    LET tactics == IdentifyTactics(board)
    IN  IF tactics = <<>>
        THEN [type |-> "tactical_advice",
              content |-> "No immediate tactical opportunities found."]
        ELSE [type |-> "tactical_advice", content |-> tactics[1].description,
              moves |-> tactics[1].moves]

\* branch 4: "evaluate" / "assessment" / "position"
EvaluationResponse(board, eval_score) ==
    [type |-> "position_evaluation",
     evaluation |-> Text(ScoreStr(eval_score)),
     position_type |-> Text(DeterminePositionType(board)),
     suggested_approach |-> SuggestApproach(eval_score, DeterminePositionType(board))]

----------------------------------------------------------------------------
(* ChessAgent._format_response *)

RECURSIVE JoinText(_, _)
JoinText(parts, sep) ==
    IF parts = <<>> THEN ""
    ELSE IF Len(parts) = 1 THEN parts[1]
    ELSE parts[1] \o sep \o JoinText(Tail(parts), sep)

RECURSIVE NumberedOptions(_, _)
NumberedOptions(options, i) ==
    IF options = <<>> THEN ""
    ELSE Text(NatChars(i)) \o ". " \o Head(options) \o "\n"
         \o NumberedOptions(Tail(options), i + 1)

FormatResponse(r) ==
    IF r.type = "move_recommendation"
    THEN "I recommend: " \o r.content
         \o (IF HasKey(r, "reasoning") THEN "\n\nReasoning: " \o r.reasoning ELSE "")
         \o (IF HasKey(r, "strategy")
             THEN "\n\nThis supports the strategy: " \o r.strategy ELSE "")
    ELSE IF r.type = "strategy_advice"
    THEN "Strategic advice: " \o r.content
         \o (IF HasKey(r, "additional_options") /\ r.additional_options # <<>>
             THEN "\n\nAlternative strategies to consider:\n"
                  \o NumberedOptions(SubSeq(r.additional_options, 1,
                                            Min(2, Len(r.additional_options))), 1)
             ELSE "")
    ELSE IF r.type = "tactical_advice"
    THEN "Tactical opportunity: " \o r.content
    ELSE IF r.type = "position_evaluation"
    THEN "Position evaluation: " \o r.evaluation \o "\nPosition type: " \o r.position_type
         \o "\n\nSuggested approach: " \o r.suggested_approach
    ELSE IF r.type = "move_explanation"
    THEN "Analysis of " \o r.move \o ":\n\n" \o JoinText(r.explanation, " ")
         \o "\n\nEvaluation change: " \o r.evaluation_before \o " -> " \o r.evaluation_after
    ELSE IF r.type = "error"
    THEN "Error: " \o r.content
    ELSE r.content

----------------------------------------------------------------------------
(* The session: ChessAgent over one ChessTaskNetwork *)

NoResponse == [type |-> "<raised>"]

Tiers == [long |-> long_term_goals, medium |-> medium_term_goals, short |-> short_term_goals]

UntouchedStatus ==
    [long |-> "untouched", medium |-> "untouched", short |-> "untouched", lines |-> <<>>]

\* a test for the empty string alone
MissingInputEmptyOnly(fen) == fen = EmptyFen

\* `if not fen`: the empty string and None
MissingInput(fen) == fen = EmptyFen \/ fen = NoneFen

\* The end of an operation: what it leaves in the tiers, whether it returned,
\* what it returned and how many times it asked the engine
Finish(op, request, fen, outcome, calls, result, tiers, status) ==
    /\ long_term_goals' = tiers.long
    /\ medium_term_goals' = tiers.medium
    /\ short_term_goals' = tiers.short
    /\ tierStatus' = status
    /\ last' = [op |-> op, fen |-> fen, query |-> request, outcome |-> outcome, calls |-> calls]
    /\ response' = result
    /\ UNCHANGED <<engine, arg>>

Returned(op, request, fen, calls, r, an) ==
    Finish(op, request, fen, "returned", calls,
           [raw |-> r, formatted |-> FormatResponse(r)], an, an.status)

Raised(op, request, fen, calls, an) ==
    Finish(op, request, fen, "raised", calls, NoResponse, an, an.status)

\* the branches of process_natural_language after analyze_position returned
\* with the tiers `an`
PlanBranch(op, request, fen, an, withStrategy) ==
    LET plan == GetBestPlan(an.long, an.medium, an.short)
    IN  IF HasKey(plan, "immediate_action")
        THEN Returned(op, request, fen, 1,
                      IF withStrategy THEN RecommendationResponse(plan)
                      ELSE DefaultResponse(plan), an)
        ELSE Raised(op, request, fen, 1, an)

EvaluateBranch(op, request, fen, board, an) ==
    \E answer \in AnalyseScore(engine) :
        IF answer.raised THEN Raised(op, request, fen, 2, an)
        ELSE Returned(op, request, fen, 2, EvaluationResponse(board, answer.score), an)

ExplainAndFinish(op, request, fen, board, move, calls, an) ==
    \E after \in AnalyseScore(engine), before \in AnalyseScore(engine) :
        LET e == ExplainMove(board, move, after, before)
        IN  /\ after.raised => before = after
            /\ IF e.raised THEN Raised(op, request, fen, calls + e.calls, an)
               ELSE Returned(op, request, fen, calls + e.calls, e.response, an)

ExplainBranch(op, request, fen, board, query, an) ==
    \E target \in ExplainTargets(board, query) :
        \/ /\ target.kind = "move"
           /\ ExplainAndFinish(op, request, fen, board, target.move, 1, an)
        \/ /\ target.kind = "assert"
           /\ Raised(op, request, fen, 1, an)
        \/ /\ target.kind = "fallback"
           /\ \E answer \in AnalyseBestMove(board, engine) :
                IF answer.raised \/ answer.pv = <<>>
                THEN Raised(op, request, fen, 2, an)
                ELSE ExplainAndFinish(op, request, fen, board, answer.pv[1], 2, an)

\* process_natural_language on a parsed board, given the engine's answer to
\* analyze_position
AnswerOnBoard(op, request, fen, board, answer) ==
    LET query == StrLower(request)
        branch == SelectBranch(query)
        an == AnalyzePosition(board, answer, Tiers)
    IN  IF an.raised THEN Raised(op, request, fen, 1, an)
        ELSE \/ branch = 1 /\ PlanBranch(op, request, fen, an, TRUE)
             \/ branch = 2 /\ Returned(op, request, fen, 1, StrategyResponse(an.long), an)
             \/ branch = 3 /\ Returned(op, request, fen, 1, TacticalResponse(board), an)
             \/ branch = 4 /\ EvaluateBranch(op, request, fen, board, an)
             \/ branch = 5 /\ ExplainBranch(op, request, fen, board, query, an)
             \/ branch = 6 /\ PlanBranch(op, request, fen, an, FALSE)

\* process_natural_language(fen, query)
ProcessNaturalLanguage(op, request, fen) ==
    IF ~ParsesAsBoard(fen)
    THEN Finish(op, request, fen, "raised", 0, NoResponse, Tiers, tierStatus)
    ELSE \E answer \in AnalyseMultiPv(BoardOf(fen), engine) :
            AnswerOnBoard(op, request, fen, BoardOf(fen), answer)

\* ChessAgent.analyze_position on a parsed board, given the engine's answer
AnalyzeOnBoard(fen, board, answer) ==
    LET an == AnalyzePosition(board, answer, Tiers)
    IN  IF an.raised THEN Raised("analyze_position", <<>>, fen, 1, an)
        ELSE Finish("analyze_position", <<>>, fen, "returned", 1,
                    [analysis |-> [long_term |-> an.long, medium_term |-> an.medium,
                                   short_term |-> an.short],
                     plan |-> GetBestPlan(an.long, an.medium, an.short)],
                    an, an.status)

\* ChessAgent.process_request(request, fen)
ProcessRequestCall(request, fen) ==
    IF MissingInput(fen)
    THEN Finish("process_request", request, fen, "returned", 0,
                [type |-> "error",
                 content |-> "No chess position provided. Please provide a FEN string."],
                Tiers, tierStatus)
    ELSE ProcessNaturalLanguage("process_request", request, fen)

\* ChessAgent.analyze_position(fen)
AnalyzePositionCall(fen) ==
    IF ~ParsesAsBoard(fen)
    THEN Finish("analyze_position", <<>>, fen, "raised", 0, NoResponse, Tiers, tierStatus)
    ELSE \E answer \in AnalyseMultiPv(BoardOf(fen), engine) :
            AnalyzeOnBoard(fen, BoardOf(fen), answer)

\* how many times the session may call close()
MaxCloses == 2

\* ChessAgent.close -> ChessTaskNetwork.close: `if self.engine: self.engine.quit()`;
\* the engine object stays set after quit()
CloseCall ==
    /\ engine.quits < MaxCloses
    /\ engine' = [quits |-> engine.quits + 1]
    /\ last' = [op |-> "close", fen |-> EmptyFen, query |-> <<>>, outcome |-> "returned",
                calls |-> 0]
    /\ response' = [type |-> "<none>"]
    /\ UNCHANGED <<long_term_goals, medium_term_goals, short_term_goals, tierStatus, arg>>

\* the questions asked in the session
SessionQueries == {
    <<"W", "h", "a", "t", "'", "s", " ", "t", "h", "e", " ", "B", "E", "S", "T", " ", "m", "o", "v", "e">>,
    <<"m", "y", " ", "p", "l", "a", "n">>,
    <<"a", "n", "y", " ", "t", "a", "c", "t", "i", "c">>,
    <<"E", "v", "a", "l", "u", "a", "t", "e">>,
    <<"e", "x", "p", "l", "a", "i", "n", " ", "m", "o", "v", "e", " ", "a", "1", "b", "1">>,
    <<"h", "e", "l", "l", "o">>}

NoArg == [kind |-> "none"]

\* ChessAgent.__init__ -> ChessTaskNetwork.__init__
Init ==
    /\ long_term_goals = <<>>
    /\ medium_term_goals = <<>>
    /\ short_term_goals = <<>>
    /\ engine = [quits |-> 0]
    /\ last = [op |-> "init", fen |-> EmptyFen, query |-> <<>>, outcome |-> "returned",
               calls |-> 0]
    /\ response = [type |-> "<none>"]
    /\ tierStatus = UntouchedStatus
    /\ arg = NoArg

ProcessRequest == \E request \in SessionQueries, fen \in Fens : ProcessRequestCall(request, fen)

AnalyzePositionOp == \E fen \in Fens : AnalyzePositionCall(fen)

Close == CloseCall

Next == ProcessRequest \/ AnalyzePositionOp \/ Close

Spec == Init /\ [][Next]_vars

----------------------------------------------------------------------------
(* The dispatcher over many queries: one request per behaviour *)

\* the words and phrases a query is put together from
QueryFragments == <<
    <<"B", "e", "s", "t", " ", "M", "o", "v", "e">>,
    <<"w", "h", "a", "t", " ", "s", "h", "o", "u", "l", "d", " ", "I", " ", "p", "l", "a", "y">>,
    <<"R", "e", "c", "o", "m", "m", "e", "n", "d">>,
    <<"S", "T", "R", "A", "T", "E", "G", "Y">>,
    <<"p", "l", "a", "n">>,
    <<"T", "a", "c", "t", "i", "c">>,
    <<"o", "p", "p", "o", "r", "t", "u", "n", "i", "t", "y">>,
    <<"e", "v", "a", "l", "u", "a", "t", "e">>,
    <<"A", "s", "s", "e", "s", "s", "m", "e", "n", "t">>,
    <<"p", "o", "s", "i", "t", "i", "o", "n">>,
    <<"e", "x", "p", "l", "a", "i", "n">>,
    <<"m", "o", "v", "e">>,
    <<"a", "1", "b", "1">>,
    <<"h", "e", "l", "l", "o">>,
    <<"e", "x", "p", "l", "a", "n", "a", "t", "i", "o", "n">>>>

\* the number of fragments in a query
MaxWords == 2

RECURSIVE FragmentSeqs(_)
FragmentSeqs(n) ==
    IF n = 0 THEN {<<>>}
    ELSE FragmentSeqs(n - 1)
         \cup {Append(ws, QueryFragments[i]) :
                 ws \in {w \in FragmentSeqs(n - 1) : Len(w) = n - 1}, i \in DOMAIN QueryFragments}

Queries == {JoinWords(ws) : ws \in FragmentSeqs(MaxWords) \ {<<>>}}

InitQuery ==
    /\ long_term_goals = <<>>
    /\ medium_term_goals = <<>>
    /\ short_term_goals = <<>>
    /\ engine = [quits |-> 0]
    /\ last = [op |-> "init", fen |-> EmptyFen, query |-> <<>>, outcome |-> "returned",
               calls |-> 0]
    /\ response = [type |-> "<none>"]
    /\ tierStatus = UntouchedStatus
    /\ arg \in {[kind |-> "query", query |-> q, fen |-> f] :
                  q \in Queries, f \in {BoardKings.fen, BoardCapture.fen}}

AskQuery == last.op = "init" /\ ProcessRequestCall(arg.query, arg.fen)

NextQuery == AskQuery

SpecQuery == InitQuery /\ [][NextQuery]_vars

----------------------------------------------------------------------------
(* C1: the branch order of process_natural_language *)

\* the keywords of each numbered branch, as the specification lists them
BranchKeywordsMatch(b, query) ==
    CASE b = 1 -> \E kw \in {Keywords.best_move, Keywords.what_should_i_play, Keywords.recommend} : Contains(query, kw)
      [] b = 2 -> \E kw \in {Keywords.strategy, Keywords.plan} : Contains(query, kw)
      [] b = 3 -> \E kw \in {Keywords.tactic, Keywords.opportunity} : Contains(query, kw)
      [] b = 4 -> \E kw \in {Keywords.evaluate, Keywords.assessment, Keywords.position} : Contains(query, kw)
      [] b = 5 -> \A kw \in {Keywords.explain, Keywords.move} : Contains(query, kw)
      [] b = 6 -> TRUE

LowestMatchingBranch(query) ==
    CHOOSE b \in 1..6 : /\ BranchKeywordsMatch(b, query)
                        /\ \A c \in 1..(b - 1) : ~BranchKeywordsMatch(c, query)

BranchResponseType(b) ==
    CASE b \in {1, 6} -> "move_recommendation"
      [] b = 2 -> "strategy_advice"
      [] b = 3 -> "tactical_advice"
      [] b = 4 -> "position_evaluation"
      [] b = 5 -> "move_explanation"

AnsweredQuery ==
    /\ last.op = "process_request"
    /\ last.outcome = "returned"
    /\ ~MissingInput(last.fen)

\* C1: every answered query gets the response type of the lowest-numbered
\* branch whose keywords its lower-cased text contains (branch 1 alone adding
\* the strategy field), so a query with both "best move" and "strategy" is
\* answered as a move_recommendation
C1_BranchOrder ==
    AnsweredQuery =>
        LET b == LowestMatchingBranch(StrLower(last.query))
        IN  /\ response.raw.type = BranchResponseType(b)
            /\ (b = 1 => HasKey(response.raw, "strategy"))
            /\ (b = 6 => ~HasKey(response.raw, "strategy"))

\* an answered query that holds both "best move" and "strategy"
C1_Witness ==
    /\ AnsweredQuery
    /\ Contains(StrLower(last.query), Keywords.best_move)
    /\ Contains(StrLower(last.query), Keywords.strategy)
    /\ last.query # StrLower(last.query)
    /\ response.raw.type = "move_recommendation"

----------------------------------------------------------------------------
(* Claims about the session *)

AllTiers == long_term_goals \o medium_term_goals \o short_term_goals

AllRebuilt ==
    tierStatus.long = "rebuilt" /\ tierStatus.medium = "rebuilt" /\ tierStatus.short = "rebuilt"

\* C2: when process_natural_language answers, it has asked the engine (the
\* analysis ran first), every tier was rebuilt, and every goal in the tiers was
\* made for the position of this call
C2_NoStaleGoals ==
    AnsweredQuery =>
        /\ last.calls >= 1
        /\ AllRebuilt
        /\ \A i \in DOMAIN AllTiers : AllTiers[i].made_for = last.fen

\* an answered strategy query with goals in every tier
C2_Witness ==
    /\ AnsweredQuery
    /\ response.raw.type = "strategy_advice"
    /\ long_term_goals # <<>> /\ medium_term_goals # <<>> /\ short_term_goals # <<>>
    /\ last.fen = BoardCapture.fen

\* C3: after a call that ran analyze_position, returned or raised, the three
\* tiers are at the same stage: none is further along than another
C3_AllOrNothing ==
    last.op \in {"process_request", "analyze_position"} =>
        /\ tierStatus.long = tierStatus.medium
        /\ tierStatus.medium = tierStatus.short

\* C4: a process_request with an empty or missing position returns an error
\* response, asks the engine nothing and leaves the three tiers as they were
C4_MissingInput ==
    [][(last'.op = "process_request" /\ last'.fen \in {EmptyFen, NoneFen}) =>
          /\ last'.outcome = "returned"
          /\ response'.type = "error"
          /\ last'.calls = 0
          /\ long_term_goals' = long_term_goals
          /\ medium_term_goals' = medium_term_goals
          /\ short_term_goals' = short_term_goals]_vars

\* an error response for a missing position while the tiers hold goals
C4_Witness ==
    /\ last.op = "process_request"
    /\ last.fen = NoneFen
    /\ response.type = "error"
    /\ short_term_goals # <<>>

ShortTermPriorities == [i \in DOMAIN short_term_goals |-> short_term_goals[i].priority]

ShortGoalsCarryLines ==
    /\ Len(short_term_goals) = Len(tierStatus.lines)
    /\ \A i \in DOMAIN short_term_goals :
         short_term_goals[i].move_sequence = <<Text(tierStatus.lines[i].pv[1].uci)>>

\* C5 as stated: after an analyze_position that returned, the short-term
\* priorities are 3,2,1 and the goal at index i carries the first move of the
\* rank-i line
C5_Original ==
    AllRebuilt => ShortTermPriorities = <<3, 2, 1>> /\ ShortGoalsCarryLines

\* C5 amended: after an analyze_position that returned, there is one short-term
\* goal per returned line, k of them with 1 <= k <= 3, their priorities are
\* 3, 2, ... down to 4 - k, and the goal at index i carries the first move of
\* the rank-i line
C5_DescendingPrefix ==
    AllRebuilt =>
        /\ Len(short_term_goals) \in 1..3
        /\ ShortTermPriorities = SubSeq(<<3, 2, 1>>, 1, Len(short_term_goals))
        /\ ShortGoalsCarryLines

\* a returned analysis with three candidate lines
C5_Witness ==
    /\ AllRebuilt
    /\ last.outcome = "returned"
    /\ Len(tierStatus.lines) = 3
    /\ ShortTermPriorities = <<3, 2, 1>>

RecommendationAnswered ==
    AnsweredQuery /\ LowestMatchingBranch(StrLower(last.query)) = 1

CandidateNotations ==
    UNION {{Text(tierStatus.lines[i].pv[1].san), Text(tierStatus.lines[i].pv[1].uci)} :
             i \in DOMAIN tierStatus.lines}

\* C7 as stated: the content of an answered recommendation query is non-empty
\* and is the notation of one of the candidate moves
C7_Original ==
    RecommendationAnswered =>
        /\ response.raw.type = "move_recommendation"
        /\ response.raw.content # ""
        /\ response.raw.content \in CandidateNotations

\* C7 amended: the content of an answered recommendation query is the text
\* "Play " followed by the algebraic notation of the first move of the
\* collaborator's best (rank-0) candidate line
C7_PlayBestCandidate ==
    RecommendationAnswered =>
        /\ response.raw.type = "move_recommendation"
        /\ response.raw.content # ""
        /\ response.raw.content = "Play " \o Text(tierStatus.lines[1].pv[1].san)

\* an answered recommendation on a position with three candidates
C7_Witness ==
    /\ RecommendationAnswered
    /\ Len(tierStatus.lines) = 3
    /\ response.raw.content = "Play Ka2"

----------------------------------------------------------------------------
(* get_best_plan over arbitrary tiers *)

\* the highest priority of a short-term goal
MaxGoalPriority == 2

\* the length of the short-term tier
MaxShortGoals == 2

\* the length of the long-term and of the medium-term tier
MaxOtherGoals == 1

SeqsUpTo(S, n) == UNION {[1..k -> S] : k \in 0..n}

ShortGoalChoices ==
    {ChessGoal(IF ms = <<>> THEN "Keep the tension" ELSE "Play " \o ms[1], p, ms, "any") :
        p \in 1..MaxGoalPriority, ms \in {<<>>, <<"a1a2">>, <<"a1b1">>}}

OtherGoalChoices ==
    {ChessGoal("Ensure king safety", 7, <<>>, "any"),
     ChessGoal("Castle to safety", 9, <<"e1g1">>, "any")}

InitPlan ==
    /\ long_term_goals \in SeqsUpTo(OtherGoalChoices, MaxOtherGoals)
    /\ medium_term_goals \in SeqsUpTo(OtherGoalChoices, MaxOtherGoals)
    /\ short_term_goals \in SeqsUpTo(ShortGoalChoices, MaxShortGoals)
    /\ engine = [quits |-> 0]
    /\ last = [op |-> "init", fen |-> EmptyFen, query |-> <<>>, outcome |-> "returned",
               calls |-> 0]
    /\ response = [type |-> "<none>"]
    /\ tierStatus = UntouchedStatus
    /\ arg = [kind |-> "plan"]

GetBestPlanOp ==
    /\ last.op = "init"
    /\ response' = GetBestPlan(long_term_goals, medium_term_goals, short_term_goals)
    /\ last' = [op |-> "get_best_plan", fen |-> EmptyFen, query |-> <<>>,
                outcome |-> "returned", calls |-> 0]
    /\ UNCHANGED <<long_term_goals, medium_term_goals, short_term_goals, engine, tierStatus, arg>>

NextPlan == GetBestPlanOp

SpecPlan == InitPlan /\ [][NextPlan]_vars

MoveBearing == {i \in DOMAIN short_term_goals : short_term_goals[i].move_sequence # <<>>}

\* the first of the move-bearing short-term goals of highest priority
IsFirstBest(i) ==
    /\ i \in MoveBearing
    /\ \A j \in MoveBearing :
         /\ short_term_goals[j].priority <= short_term_goals[i].priority
         /\ short_term_goals[j].priority = short_term_goals[i].priority => i <= j

\* C6: the plan is a sentinel with no moves, and only when no short-term goal
\* carries moves, or it carries the moves and the description of the first
\* short-term goal of highest priority among those with a non-empty move
\* sequence; never the moves of a long-term or medium-term goal, never those of
\* a goal without moves
C6_PlanMoves ==
    last.op = "get_best_plan" =>
        \/ /\ MoveBearing = {}
           /\ response.moves = <<>>
           /\ ~HasKey(response, "immediate_action")
           /\ response.description \in {"No clear plan identified", "No clear moves identified"}
        \/ \E i \in DOMAIN short_term_goals :
              /\ IsFirstBest(i)
              /\ response.moves = short_term_goals[i].move_sequence
              /\ response.moves # <<>>
              /\ response.immediate_action = short_term_goals[i].description

\* two move-bearing short-term goals tie, a long-term goal of higher priority
\* carries moves, and the plan takes the first of the two
C6_Witness ==
    /\ last.op = "get_best_plan"
    /\ Len(short_term_goals) = 2
    /\ short_term_goals[1].priority = short_term_goals[2].priority
    /\ short_term_goals[1].move_sequence = <<"a1b1">>
    /\ short_term_goals[2].move_sequence = <<"a1a2">>
    /\ long_term_goals # <<>> /\ long_term_goals[1].move_sequence # <<>>
    /\ response.moves = <<"a1b1">>

----------------------------------------------------------------------------
(* _identify_tactics over many positions *)

\* the number of legal moves of a scanned position
MaxLegalMoves == 2

\* What the rules collaborator says of one legal move: whether it gives check,
\* and whether it is quiet, takes the piece on its target square, or takes a
\* pawn en passant
MoveShapes ==
    {[check |-> c, kind |-> "quiet", attacker |-> "BISHOP", captured |-> "NONE"] : c \in BOOLEAN}
    \cup {[check |-> c, kind |-> "en_passant", attacker |-> "PAWN", captured |-> "PAWN"] :
            c \in BOOLEAN}
    \cup {[check |-> c, kind |-> "takes", attacker |-> a, captured |-> t] :
            c \in BOOLEAN, a \in {"PAWN", "BISHOP", "QUEEN", "KING"},
            t \in {"PAWN", "KNIGHT", "ROOK", "QUEEN"}}

\* move i of a scanned position goes one step up a diagonal from the fifth
\* rank, each move on files of its own
ShapeFrom(i) == Sq(FileChars[2 * i - 1], 5)

ShapeTo(i) == Sq(FileChars[2 * i], 6)

ShapePassed(i) == Sq(FileChars[2 * i], 5)

ShapeMove(shape, i) ==
    LET takes == shape.kind # "quiet"
    IN  MakeMove(SquareName(ShapeFrom(i)) \o SquareName(ShapeTo(i)),
                 (IF shape.attacker = "PAWN" THEN <<FileChars[2 * i - 1]>>
                  ELSE PieceLetter(shape.attacker))
                    \o (IF takes THEN <<"x">> ELSE <<>>) \o SquareName(ShapeTo(i))
                    \o (IF shape.check THEN <<"+">> ELSE <<>>),
                 ShapeFrom(i), ShapeTo(i), shape.check, shape.kind = "en_passant")

\* the position, White to move, in which the given moves are the legal ones
BoardOfShapes(shapes) ==
    LET n == Len(shapes)
        froms == {ShapeFrom(i) : i \in 1..n}
        taken == {ShapeTo(i) : i \in {j \in 1..n : shapes[j].kind = "takes"}}
        passed == {ShapePassed(i) : i \in {j \in 1..n : shapes[j].kind = "en_passant"}}
        index(sq) == CHOOSE i \in 1..n : sq \in {ShapeFrom(i), ShapeTo(i), ShapePassed(i)}
    IN  [fen |-> "scanned", turn |-> "WHITE",
         pieces |-> [sq \in froms \cup taken \cup passed \cup {Sq("h", 8)} |->
                        IF sq = Sq("h", 8) THEN Piece("KING", "BLACK")
                        ELSE IF sq \in froms THEN Piece(shapes[index(sq)].attacker, "WHITE")
                        ELSE Piece(shapes[index(sq)].captured, "BLACK")],
         castling |-> {}, fullmove_number |-> 20, halfmove_clock |-> 0,
         legal_moves |-> [i \in 1..n |-> ShapeMove(shapes[i], i)]]

\* one king a side
OneKing(shapes) == Cardinality({i \in DOMAIN shapes : shapes[i].attacker = "KING"}) <= 1

ScannedBoards ==
    {BoardOfShapes(shapes) : shapes \in {ss \in SeqsUpTo(MoveShapes, MaxLegalMoves) : OneKing(ss)}}

InitTactics ==
    /\ long_term_goals = <<>>
    /\ medium_term_goals = <<>>
    /\ short_term_goals = <<>>
    /\ engine = [quits |-> 0]
    /\ last = [op |-> "init", fen |-> EmptyFen, query |-> <<>>, outcome |-> "returned",
               calls |-> 0]
    /\ response = [type |-> "<none>"]
    /\ tierStatus = UntouchedStatus
    /\ \E board \in ScannedBoards : arg = [kind |-> "tactics", board |-> board]

IdentifyTacticsOp ==
    /\ last.op = "init"
    /\ response' = [tactics |-> IdentifyTactics(arg.board)]
    /\ last' = [op |-> "identify_tactics", fen |-> arg.board.fen, query |-> <<>>,
                outcome |-> "returned", calls |-> 0]
    /\ UNCHANGED <<long_term_goals, medium_term_goals, short_term_goals, engine, tierStatus, arg>>

NextTactics == IdentifyTacticsOp

SpecTactics == InitTactics /\ [][NextTactics]_vars

TacticsAnswered == last.op = "identify_tactics"

\* the legal move an entry is about
EntryMove(entry) ==
    CHOOSE k \in DOMAIN arg.board.legal_moves :
        <<Text(arg.board.legal_moves[k].uci)>> = entry.moves

IsCheckEntry(entry) ==
    entry.description = "Check with " \o Text(arg.board.legal_moves[EntryMove(entry)].san)

\* the place of an entry in discovery order: the check pass, then the capture pass
Discovery(entry) ==
    IF IsCheckEntry(entry) THEN EntryMove(entry)
    ELSE Len(arg.board.legal_moves) + EntryMove(entry)

\* C8: the returned list is non-increasing in priority, and two entries of one
\* priority stand in discovery order: check entries in legal-move order, then
\* capture entries in legal-move order
C8_SortedStable ==
    TacticsAnswered =>
        \A i, j \in DOMAIN response.tactics :
            i < j =>
                /\ response.tactics[i].priority >= response.tactics[j].priority
                /\ response.tactics[i].priority = response.tactics[j].priority
                     => Discovery(response.tactics[i]) < Discovery(response.tactics[j])

\* the first legal move takes a rook, the second gives check, and the check
\* stands before the rook capture
C8_Witness ==
    /\ TacticsAnswered
    /\ Len(arg.board.legal_moves) = 2
    /\ Len(response.tactics) = 2
    /\ response.tactics[1] = CheckTactic(arg.board, arg.board.legal_moves[2])
    /\ response.tactics[2] = CaptureTactic(arg.board, arg.board.legal_moves[1])
    /\ response.tactics[2].priority = CheckPriority
    /\ PieceAt(arg.board, arg.board.legal_moves[1].to_square).piece_type = "ROOK"

\* the piece a capture removes: the one on the target square, or the pawn
\* passed by an en passant capture
CapturedPiece(board, move) ==
    IF move.en_passant THEN Piece("PAWN", Opponent(board.turn))
    ELSE PieceAt(board, move.to_square)

FavorableCapture(board, move) ==
    /\ IsCapture(board, move)
    /\ TacticValue(CapturedPiece(board, move).piece_type)
         >= TacticValue(PieceAt(board, move.from_square).piece_type)

ExpectedCapture(board, move) ==
    [description |-> "Capture " \o PieceName(CapturedPiece(board, move)) \o " with "
                     \o Text(move.san),
     moves |-> <<Text(move.uci)>>,
     priority |-> TacticValue(CapturedPiece(board, move).piece_type)]

Occurrences(entries, entry) == Cardinality({i \in DOMAIN entries : entries[i] = entry})

\* C9: the list holds exactly one check entry of priority 5 for every legal
\* move that gives check, exactly one capture entry, its priority the captured
\* piece's value, for every legal capture where the captured piece is worth at
\* least the capturing one, and nothing else
C9_ExactEntries ==
    TacticsAnswered =>
        LET board == arg.board
            moves == board.legal_moves
        IN  /\ \A k \in DOMAIN moves :
                 /\ Occurrences(response.tactics, CheckTactic(board, moves[k]))
                      = IF moves[k].gives_check THEN 1 ELSE 0
                 /\ Occurrences(response.tactics, ExpectedCapture(board, moves[k]))
                      = IF FavorableCapture(board, moves[k]) THEN 1 ELSE 0
            /\ Len(response.tactics)
                 = Cardinality({k \in DOMAIN moves : moves[k].gives_check})
                   + Cardinality({k \in DOMAIN moves : FavorableCapture(board, moves[k])})

\* the same, of the positions where no legal move is an en passant capture
C9_WithoutEnPassant ==
    (\A k \in DOMAIN arg.board.legal_moves : ~arg.board.legal_moves[k].en_passant)
        => C9_ExactEntries

----------------------------------------------------------------------------
(* _determine_position_type over many positions *)

\* the most pieces standing off the four center squares
MaxExtraPieces == 9

\* the highest move number
MaxFullmove == 11

\* the highest half-move clock
MaxHalfmove == 3

CenterContents == {NoPiece, Piece("PAWN", "WHITE"), Piece("PAWN", "BLACK"), Piece("KNIGHT", "BLACK")}

\* a position with the given center, `extra` pieces on the first ranks, and
\* the given counters
BoardOfCenter(center, extra, fullmove, halfmove) ==
    LET held == {sq \in DOMAIN center : center[sq] # NoPiece}
    IN  [fen |-> "classified", turn |-> "WHITE",
         pieces |-> [sq \in held \cup 0..(extra - 1) |->
                        IF sq \in held THEN center[sq]
                        ELSE IF sq = 0 THEN Piece("KING", "WHITE")
                        ELSE IF sq = 1 THEN Piece("KING", "BLACK")
                        ELSE Piece("KNIGHT", "WHITE")],
         castling |-> {}, fullmove_number |-> fullmove, halfmove_clock |-> halfmove,
         legal_moves |-> <<>>]

ClassifiedBoards ==
    {BoardOfCenter(center, extra, fullmove, halfmove) :
        center \in [Range(ClassifierSquares) -> CenterContents],
        extra \in (MaxExtraPieces - 3)..MaxExtraPieces,
        fullmove \in (MaxFullmove - 2)..MaxFullmove,
        halfmove \in 0..MaxHalfmove}

InitClassify ==
    /\ long_term_goals = <<>>
    /\ medium_term_goals = <<>>
    /\ short_term_goals = <<>>
    /\ engine = [quits |-> 0]
    /\ last = [op |-> "init", fen |-> EmptyFen, query |-> <<>>, outcome |-> "returned",
               calls |-> 0]
    /\ response = [type |-> "<none>"]
    /\ tierStatus = UntouchedStatus
    /\ \E board \in ClassifiedBoards : arg = [kind |-> "classify", board |-> board]

DeterminePositionTypeOp ==
    /\ last.op = "init"
    /\ response' = [position_type |-> DeterminePositionType(arg.board)]
    /\ last' = [op |-> "determine_position_type", fen |-> arg.board.fen, query |-> <<>>,
                outcome |-> "returned", calls |-> 0]
    /\ UNCHANGED <<long_term_goals, medium_term_goals, short_term_goals, engine, tierStatus, arg>>

NextClassify == DeterminePositionTypeOp

SpecClassify == InitClassify /\ [][NextClassify]_vars

Classified == last.op = "determine_position_type"

\* pawns of either colour on d4, e4, d5, e5
PawnsInCenter(board) ==
    Cardinality({sq \in {Sq("d", 4), Sq("e", 4), Sq("d", 5), Sq("e", 5)} :
                    sq \in DOMAIN board.pieces /\ board.pieces[sq].piece_type = "PAWN"})

\* C10: the label is decided by the first test that matches, over the center
\* pawn count c, the occupied squares n, the move number m and the half-move
\* clock h: c <= 1 Open; else c >= 3 Closed; else n <= 10 Endgame; else m > 10
\* and h < 3 Tactical; else Semi-open; one of the five labels for every input
C10_FirstMatchWins ==
    Classified =>
        LET c == PawnsInCenter(arg.board)
            n == Cardinality(DOMAIN arg.board.pieces)
            m == arg.board.fullmove_number
            h == arg.board.halfmove_clock
            label == Text(response.position_type)
        IN  /\ c \in 0..4
            /\ label \in {"Open position", "Closed position", "Endgame position",
                          "Tactical position", "Semi-open position"}
            /\ c <= 1 => label = "Open position"
            /\ c >= 3 => label = "Closed position"
            /\ c = 2 /\ n <= 10 => label = "Endgame position"
            /\ c = 2 /\ n > 10 /\ m > 10 /\ h < 3 => label = "Tactical position"
            /\ c = 2 /\ n > 10 /\ ~(m > 10 /\ h < 3) => label = "Semi-open position"

\* one center pawn on a board of at most ten pieces, past move ten with a young
\* clock: the later tests would match, and the answer is Open
C10_Witness ==
    /\ Classified
    /\ PawnsInCenter(arg.board) = 1
    /\ Cardinality(DOMAIN arg.board.pieces) <= 10
    /\ arg.board.fullmove_number > 10
    /\ arg.board.halfmove_clock < 3
    /\ response.position_type = OpenPosition

----------------------------------------------------------------------------
(* analyze_position and the planner over positions of every phase *)

\* how far around the threshold of 200 the best line's score is taken
EvalMargin == 1

\* the scores of the best line: around the threshold, level, losing, and mates
EvalSamples ==
    {Cp(200 + d) : d \in (0 - EvalMargin)..EvalMargin}
    \cup {Cp(0), Cp(-250), Mate(2), Mate(-2)}

\* the pawns a side may have
PawnCounts == {0, 3, 4, 5, 8}

\* a rank of a FEN holding n pawns on its first files
PawnRow(n, ch) ==
    IF n = 0 THEN "8"
    ELSE Text([i \in 1..n |-> ch]) \o (IF n = 8 THEN "" ELSE DigitChars[8 - n + 1])

BackRank == <<"ROOK", "KNIGHT", "BISHOP", "QUEEN", "KING", "BISHOP", "KNIGHT", "ROOK">>

\* chess.Board(fen) of a position with the kings at home, with or without the
\* other pieces of the back ranks, and pawns on the first files of the second
\* and seventh ranks
PhaseBoard(backrank, wp, bp, turn) ==
    LET home == IF backrank THEN 1..8 ELSE {5}
    IN  [fen |-> (IF backrank THEN "rnbqkbnr/" ELSE "4k3/") \o PawnRow(bp, "p")
                 \o "/8/8/8/8/" \o PawnRow(wp, "P")
                 \o (IF backrank THEN "/RNBQKBNR " ELSE "/4K3 ")
                 \o (IF turn = "WHITE" THEN "w" ELSE "b")
                 \o (IF backrank THEN " KQkq - 0 20" ELSE " - - 0 20"),
         turn |-> turn,
         pieces |-> [sq \in {Sq(FileChars[f], 1) : f \in home}
                            \cup {Sq(FileChars[f], 8) : f \in home}
                            \cup {Sq(FileChars[f], 2) : f \in 1..wp}
                            \cup {Sq(FileChars[f], 7) : f \in 1..bp} |->
                        IF sq \div 8 = 0 THEN Piece(BackRank[(sq % 8) + 1], "WHITE")
                        ELSE IF sq \div 8 = 7 THEN Piece(BackRank[(sq % 8) + 1], "BLACK")
                        ELSE IF sq \div 8 = 1 THEN Piece("PAWN", "WHITE")
                        ELSE Piece("PAWN", "BLACK")],
         castling |-> IF backrank THEN {"WHITE", "BLACK"} ELSE {},
         fullmove_number |-> 20, halfmove_clock |-> 0]

PhaseBoards ==
    {PhaseBoard(backrank, wp, bp, turn) :
        backrank \in BOOLEAN, wp \in PawnCounts, bp \in PawnCounts, turn \in {"WHITE", "BLACK"}}

\* moves of the side to move that the engine's lines start with: the a-pawn's
\* step, the king's step forward, the king's knight's step, the b-pawn's step
CandidateMoves(board) ==
    LET white == board.turn = "WHITE"
        from == IF white THEN 2 ELSE 7
        to == IF white THEN 3 ELSE 6
        home == IF white THEN 1 ELSE 8
        pawns == Cardinality(PiecesOf(board, "PAWN", board.turn))
        quiet(letter, f1, r1, f2, r2) ==
            MakeMove(SquareName(Sq(f1, r1)) \o SquareName(Sq(f2, r2)),
                     letter \o SquareName(Sq(f2, r2)), Sq(f1, r1), Sq(f2, r2), FALSE, FALSE)
    IN  (IF pawns >= 1 THEN <<quiet(<<>>, "a", from, "a", to)>> ELSE <<>>)
        \o (IF pawns < 5 THEN <<quiet(<<"K">>, "e", home, "e", from)>> ELSE <<>>)
        \o (IF PiecesOf(board, "KNIGHT", board.turn) # {}
            THEN <<quiet(<<"N">>, "g", home, "f", to)>> ELSE <<>>)
        \o (IF pawns >= 2 THEN <<quiet(<<>>, "b", from, "b", to)>> ELSE <<>>)

\* engine.analyse(board, limit, multipv=3) on such a position: it raises, or
\* returns the lines of MultiPV candidates (or of all, when fewer), the last of
\* them possibly without a line
AnalysisAnswers(board) ==
    LET moves == CandidateMoves(board)
        n == Len(moves)
        k == Min(MultiPV, n)
    IN  {[raised |-> TRUE, lines |-> <<>>]}
        \cup {[raised |-> FALSE,
               lines |-> [i \in 1..k |-> [pv |-> IF i = miss THEN <<>>
                                                 ELSE <<moves[((first + i - 2) % n) + 1]>>,
                                          score |-> sc]]] :
                first \in 1..n, miss \in {0, k}, sc \in EvalSamples}

\* the questions answered from the tiers
PlanQueries == {q \in SessionQueries : SelectBranch(StrLower(q)) \in {1, 2, 6}}

InitAnalyze ==
    /\ long_term_goals = <<>>
    /\ medium_term_goals = <<>>
    /\ short_term_goals = <<>>
    /\ engine = [quits |-> 0]
    /\ last = [op |-> "init", fen |-> EmptyFen, query |-> <<>>, outcome |-> "returned",
               calls |-> 0]
    /\ response = [type |-> "<none>"]
    /\ tierStatus = UntouchedStatus
    /\ \E board \in PhaseBoards : \E answer \in AnalysisAnswers(board) :
          arg = [kind |-> "analyze", board |-> board, answer |-> answer]

\* ChessAgent.analyze_position(fen)
AnalyzeBoard == last.op = "init" /\ AnalyzeOnBoard(arg.board.fen, arg.board, arg.answer)

\* ChessAgent.process_request(request, fen)
AskBoard ==
    /\ last.op = "init"
    /\ \E request \in PlanQueries : AnswerOnBoard("process_request", request, arg.board.fen,
                                            arg.board, arg.answer)

NextAnalyze == AnalyzeBoard \/ AskBoard

SpecAnalyze == InitAnalyze /\ [][NextAnalyze]_vars

\* the engine answered with a line in every info
AnsweredWithLines ==
    /\ last.op # "init"
    /\ ~arg.answer.raised
    /\ \A i \in DOMAIN arg.answer.lines : arg.answer.lines[i].pv # <<>>

GoalTexts(goals) ==
    [i \in DOMAIN goals |-> <<goals[i].description, goals[i].priority>>]

\* C11: on a position of at most ten occupied squares, an analysis the engine
\* answered returns, and the long-term tier is "Activate king and create passed
\* pawns" (8), followed by "Exchange pieces but not pawns" (7) exactly when the
\* best line's score is a number above 200; a mate score raises nothing and
\* leaves the first goal alone
C11_EndgameGoals ==
    (AnsweredWithLines /\ Cardinality(DOMAIN arg.board.pieces) <= 10) =>
        /\ last.outcome = "returned"
        /\ GoalTexts(long_term_goals)
             = <<<<"Activate king and create passed pawns", 8>>>>
               \o (IF arg.answer.lines[1].score.kind = "cp" /\ arg.answer.lines[1].score.v > 200
                   THEN <<<<"Exchange pieces but not pawns", 7>>>>
                   ELSE <<>>)

\* an endgame analysed at +201: both goals
C11_Witness ==
    /\ AnsweredWithLines
    /\ Cardinality(DOMAIN arg.board.pieces) = 10
    /\ arg.answer.lines[1].score = Cp(201)
    /\ Len(long_term_goals) = 2
    /\ long_term_goals[2].description = "Exchange pieces but not pawns"

\* an endgame analysed at mate in two: the call returns with the first goal alone
C11_WitnessMate ==
    /\ AnsweredWithLines
    /\ Cardinality(DOMAIN arg.board.pieces) <= 10
    /\ arg.answer.lines[1].score = Mate(2)
    /\ last.outcome = "returned"
    /\ Len(long_term_goals) = 1

----------------------------------------------------------------------------
(* The engine's release *)

\* C12: over a session the engine's quit() is invoked at most once, and it has
\* been invoked once close() was called
C12_QuitOnce ==
    /\ engine.quits <= 1
    /\ last.op = "close" => engine.quits = 1

----------------------------------------------------------------------------
(* The explain branch and _explain_move over pawn and knight moves *)

\* 5k2/3p4/4P3/8/8/8/8/7K w - - 0 50: the e-pawn steps to the seventh rank with
\* check, or takes on d7
BoardWhitePawn ==
    [fen |-> "5k2/3p4/4P3/8/8/8/8/7K w - - 0 50", turn |-> "WHITE",
     pieces |-> (Sq("h", 1) :> Piece("KING", "WHITE"))
                @@ (Sq("e", 6) :> Piece("PAWN", "WHITE"))
                @@ (Sq("d", 7) :> Piece("PAWN", "BLACK"))
                @@ (Sq("f", 8) :> Piece("KING", "BLACK")),
     castling |-> {}, fullmove_number |-> 50, halfmove_clock |-> 0,
     legal_moves |-> <<
        MakeMove(<<"h", "1", "g", "1">>, <<"K", "g", "1">>, Sq("h", 1), Sq("g", 1), FALSE, FALSE),
        MakeMove(<<"h", "1", "g", "2">>, <<"K", "g", "2">>, Sq("h", 1), Sq("g", 2), FALSE, FALSE),
        MakeMove(<<"h", "1", "h", "2">>, <<"K", "h", "2">>, Sq("h", 1), Sq("h", 2), FALSE, FALSE),
        MakeMove(<<"e", "6", "e", "7">>, <<"e", "7", "+">>, Sq("e", 6), Sq("e", 7), TRUE, FALSE),
        MakeMove(<<"e", "6", "d", "7">>, <<"e", "x", "d", "7">>, Sq("e", 6), Sq("d", 7), FALSE, FALSE)>>]

\* 7k/8/8/8/8/4p3/3P4/5K2 b - - 0 50: the mirror image, Black to move
BoardBlackPawn ==
    [fen |-> "7k/8/8/8/8/4p3/3P4/5K2 b - - 0 50", turn |-> "BLACK",
     pieces |-> (Sq("h", 8) :> Piece("KING", "BLACK"))
                @@ (Sq("e", 3) :> Piece("PAWN", "BLACK"))
                @@ (Sq("d", 2) :> Piece("PAWN", "WHITE"))
                @@ (Sq("f", 1) :> Piece("KING", "WHITE")),
     castling |-> {}, fullmove_number |-> 50, halfmove_clock |-> 0,
     legal_moves |-> <<
        MakeMove(<<"h", "8", "g", "8">>, <<"K", "g", "8">>, Sq("h", 8), Sq("g", 8), FALSE, FALSE),
        MakeMove(<<"h", "8", "g", "7">>, <<"K", "g", "7">>, Sq("h", 8), Sq("g", 7), FALSE, FALSE),
        MakeMove(<<"h", "8", "h", "7">>, <<"K", "h", "7">>, Sq("h", 8), Sq("h", 7), FALSE, FALSE),
        MakeMove(<<"e", "3", "e", "2">>, <<"e", "2", "+">>, Sq("e", 3), Sq("e", 2), TRUE, FALSE),
        MakeMove(<<"e", "3", "d", "2">>, <<"e", "x", "d", "2">>, Sq("e", 3), Sq("d", 2), FALSE, FALSE)>>]

\* k7/8/8/8/8/4P3/8/6NK w - - 0 50: a pawn that can step into the center and a
\* knight on its starting square
BoardKnight ==
    [fen |-> "k7/8/8/8/8/4P3/8/6NK w - - 0 50", turn |-> "WHITE",
     pieces |-> (Sq("h", 1) :> Piece("KING", "WHITE"))
                @@ (Sq("g", 1) :> Piece("KNIGHT", "WHITE"))
                @@ (Sq("e", 3) :> Piece("PAWN", "WHITE"))
                @@ (Sq("a", 8) :> Piece("KING", "BLACK")),
     castling |-> {}, fullmove_number |-> 50, halfmove_clock |-> 0,
     legal_moves |-> <<
        MakeMove(<<"h", "1", "g", "2">>, <<"K", "g", "2">>, Sq("h", 1), Sq("g", 2), FALSE, FALSE),
        MakeMove(<<"h", "1", "h", "2">>, <<"K", "h", "2">>, Sq("h", 1), Sq("h", 2), FALSE, FALSE),
        MakeMove(<<"g", "1", "e", "2">>, <<"N", "e", "2">>, Sq("g", 1), Sq("e", 2), FALSE, FALSE),
        MakeMove(<<"g", "1", "f", "3">>, <<"N", "f", "3">>, Sq("g", 1), Sq("f", 3), FALSE, FALSE),
        MakeMove(<<"g", "1", "h", "3">>, <<"N", "h", "3">>, Sq("g", 1), Sq("h", 3), FALSE, FALSE),
        MakeMove(<<"e", "3", "e", "4">>, <<"e", "4">>, Sq("e", 3), Sq("e", 4), FALSE, FALSE)>>]

ExplainBoards == {BoardWhitePawn, BoardBlackPawn, BoardKnight}

\* what the caller writes after "Explain move": moves in long-form and in
\* algebraic notation, and a move from an empty square
ExplainTokens == {
    <<"e", "6", "e", "7">>,
    <<"e", "7">>,
    <<"e", "7", "+">>,
    <<"e", "x", "d", "7">>,
    <<"e", "3", "e", "2">>,
    <<"e", "x", "d", "2">>,
    <<"e", "3", "e", "4">>,
    <<"e", "4">>,
    <<"g", "1", "f", "3">>,
    <<"n", "f", "3">>,
    <<"h", "3", "h", "4">>}

ExplainPrefix == <<"E", "x", "p", "l", "a", "i", "n", " ", "m", "o", "v", "e">>

\* "Explain move <token>", and the same with no token
ExplainQueries == {ExplainPrefix} \cup {ExplainPrefix \o <<" ">> \o tok : tok \in ExplainTokens}

InitExplain ==
    /\ long_term_goals = <<>>
    /\ medium_term_goals = <<>>
    /\ short_term_goals = <<>>
    /\ engine = [quits |-> 0]
    /\ last = [op |-> "init", fen |-> EmptyFen, query |-> <<>>, outcome |-> "returned",
               calls |-> 0]
    /\ response = [type |-> "<none>"]
    /\ tierStatus = UntouchedStatus
    /\ \E board \in ExplainBoards, query \in ExplainQueries :
          arg = [kind |-> "explain", board |-> board, query |-> query]

\* ChessAgent.process_request(request, fen)
AskExplain ==
    /\ last.op = "init"
    /\ \E answer \in AnalyseMultiPv(arg.board, engine) :
          AnswerOnBoard("process_request", arg.query, arg.board.fen, arg.board, answer)

NextExplain == AskExplain

SpecExplain == InitExplain /\ [][NextExplain]_vars

ExplainAnswered ==
    /\ last.op = "process_request"
    /\ last.outcome = "returned"
    /\ response.raw.type = "move_explanation"

\* the first token of the lower-cased query with two characters or more, a
\* letter and a digit, or the empty text
NamedToken ==
    LET words == Split(StrLower(last.query))
        fits(w) == /\ Len(w) >= 2
                   /\ \E i \in DOMAIN w : w[i] \in Range(LowerLetters)
                   /\ \E i \in DOMAIN w : w[i] \in Range(DigitChars)
        found == {i \in DOMAIN words : fits(words[i])}
    IN  IF found = {} THEN <<>>
        ELSE words[CHOOSE i \in found : \A j \in found : i <= j]

\* the legal moves the token denotes: in long-form notation or, failing that,
\* in algebraic notation (a check mark may be left out)
NamedMoves ==
    LET legal == arg.board.legal_moves
        long == {i \in DOMAIN legal : legal[i].uci = NamedToken}
        plain(san) == IF san[Len(san)] = "+" THEN SubSeq(san, 1, Len(san) - 1) ELSE san
        algebraic == {i \in DOMAIN legal :
                        NamedToken # <<>> /\ plain(legal[i].san) = plain(NamedToken)}
    IN  IF long # {} THEN long ELSE algebraic

\* C13: when the token of an explain query denotes a legal move, in long-form
\* notation or else in algebraic notation, the explanation returned is of that
\* move
C13_ExplainsNamedMove ==
    (ExplainAnswered /\ NamedMoves # {}) =>
        \E i \in NamedMoves : response.raw.move = Text(arg.board.legal_moves[i].san)

\* the same, of the tokens that are not four characters of algebraic notation
C13_ExceptFourCharacterSan ==
    (Len(NamedToken) # 4 \/ \E i \in NamedMoves : arg.board.legal_moves[i].uci = NamedToken)
        => C13_ExplainsNamedMove

\* C13, last part: after an analysis that returned, an explain query fails only
\* when the engine does, at its second call or later; a token that is no move
\* of the position never does
C13_NoSurfacedFailure ==
    (last.op = "process_request" /\ last.outcome = "raised"
     /\ tierStatus.long = "rebuilt" /\ tierStatus.short = "rebuilt")
        => last.calls >= 2

\* the legal moves of the position that the explanation names
ExplainedMoves ==
    {i \in DOMAIN arg.board.legal_moves :
        Text(arg.board.legal_moves[i].san) = response.raw.move}

\* a pawn arriving on the rank before its promotion rank: the seventh for
\* White, the second for Black
ReachesLastButOneRank(move) ==
    LET piece == arg.board.pieces[move.from_square]
    IN  /\ piece.piece_type = "PAWN"
        /\ \/ piece.color = "WHITE" /\ move.to_square \in {Sq(FileChars[f], 7) : f \in 1..8}
           \/ piece.color = "BLACK" /\ move.to_square \in {Sq(FileChars[f], 2) : f \in 1..8}

\* C15: the explanation is the capture-or-reposition clause, then the check,
\* center-control, promotion-proximity and development clauses that apply, in
\* that order, and the promotion-proximity clause is there exactly when a pawn
\* of either colour arrives on the rank before its promotion rank
C15_ClauseOrder ==
    ExplainAnswered =>
        \A i \in ExplainedMoves :
            LET clauses == response.raw.explanation
                when(b, sentence) == IF b THEN <<sentence>> ELSE <<>>
            IN  /\ clauses[1] \notin {"It gives check to the opponent's king.",
                                      "This move helps control the center.",
                                      "This pawn is now one step away from promotion.",
                                      "This develops a piece from its starting position."}
                /\ \E check, center, development \in BOOLEAN :
                     Tail(clauses)
                       = when(check, "It gives check to the opponent's king.")
                         \o when(center, "This move helps control the center.")
                         \o when(ReachesLastButOneRank(arg.board.legal_moves[i]),
                                 "This pawn is now one step away from promotion.")
                         \o when(development, "This develops a piece from its starting position.")

\* the same, of the positions with White to move
C15_WhiteToMove == arg.board.turn = "WHITE" => C15_ClauseOrder

----------------------------------------------------------------------------
(* _suggest_approach over scores around its thresholds *)

PositionLabels ==
    {OpenPosition, ClosedPosition, EndgamePosition, TacticalPosition, SemiOpenPosition}

\* scores within EvalMargin of -200, -30, 0, 30 and 200, and mates
SuggestEvals ==
    {Cp(t + d) : t \in {-200, -30, 0, 30, 200}, d \in (0 - EvalMargin)..EvalMargin}
    \cup {Mate(1), Mate(2), Mate(-2)}

InitSuggest ==
    /\ long_term_goals = <<>>
    /\ medium_term_goals = <<>>
    /\ short_term_goals = <<>>
    /\ engine = [quits |-> 0]
    /\ last = [op |-> "init", fen |-> EmptyFen, query |-> <<>>, outcome |-> "returned",
               calls |-> 0]
    /\ response = [type |-> "<none>"]
    /\ tierStatus = UntouchedStatus
    /\ \E evaluation \in SuggestEvals, position_type \in PositionLabels :
          arg = [kind |-> "suggest", evaluation |-> evaluation, position_type |-> position_type]

SuggestApproachOp ==
    /\ last.op = "init"
    /\ response' = [suggested_approach |-> SuggestApproach(arg.evaluation, arg.position_type)]
    /\ last' = [op |-> "suggest_approach", fen |-> EmptyFen, query |-> <<>>,
                outcome |-> "returned", calls |-> 0]
    /\ UNCHANGED <<long_term_goals, medium_term_goals, short_term_goals, engine, tierStatus, arg>>

NextSuggest == SuggestApproachOp

SpecSuggest == InitSuggest /\ [][NextSuggest]_vars

\* C14: a mate score gives the forced-mate message; else with |e| < 30 the
\* message is the one for an equal position, tailored to the Open, Closed and
\* Tactical labels and generic for the Endgame and Semi-open ones; else e > 200
\* gives the significant advantage, e < -200 the disadvantage, 30 <= e <= 200
\* the slight advantage and -200 <= e <= -30 the slight disadvantage
C14_Thresholds ==
    last.op = "suggest_approach" =>
        LET e == arg.evaluation.v
            label == Text(arg.position_type)
            message == response.suggested_approach
        IN  IF arg.evaluation.kind = "mate"
            THEN message = "There's a forced mate. Follow the tactical sequence."
            ELSE /\ (-30 < e /\ e < 30 /\ label = "Open position") =>
                      message = "The position is roughly equal and open. Focus on piece activity and creating imbalances."
                 /\ (-30 < e /\ e < 30 /\ label = "Closed position") =>
                      message = "The position is roughly equal but closed. Consider a positional maneuver or breakthrough."
                 /\ (-30 < e /\ e < 30 /\ label = "Tactical position") =>
                      message = "The position is balanced but tactical. Look for combinations and tactical opportunities."
                 /\ (-30 < e /\ e < 30 /\ label \in {"Endgame position", "Semi-open position"}) =>
                      message = "The position is balanced. Focus on improving your worst-placed piece."
                 /\ e > 200 =>
                      message = "You have a significant advantage. Simplify the position and avoid unnecessary complications."
                 /\ e < -200 =>
                      message = "You are at a disadvantage. Create complications and look for tactical chances."
                 /\ (30 <= e /\ e <= 200) =>
                      message = "You have a slight advantage. Focus on incrementally improving your position."
                 /\ (-200 <= e /\ e <= -30) =>
                      message = "You have a slight disadvantage. Focus on equalizing the position through careful defense."

\* the boundary -200 on a Semi-open position: still the slight disadvantage
C14_Witness ==
    /\ last.op = "suggest_approach"
    /\ arg.evaluation = Cp(-200)
    /\ arg.position_type = SemiOpenPosition
    /\ response.suggested_approach
         = "You have a slight disadvantage. Focus on equalizing the position through careful defense."

----------------------------------------------------------------------------
(* The planner and the strategy after an analysis that returned *)

TopStrategy ==
    LET best == {i \in DOMAIN long_term_goals :
                    \A j \in DOMAIN long_term_goals :
                        long_term_goals[j].priority <= long_term_goals[i].priority}
    IN  long_term_goals[CHOOSE i \in best : \A j \in best : i <= j].description

\* C17: after an analysis that returned, the long-term tier holds two goals in
\* the opening (more than 24 occupied squares), one in the middlegame, one or
\* two in the endgame (ten or fewer), in non-increasing priority order; the
\* strategy of a recommendation and the content of a strategy answer are both
\* the first long-term goal, which is the one of highest priority, and neither
\* fallback text is produced
C17_LongTermTier ==
    (last.op # "init" /\ last.outcome = "returned") =>
        LET n == Cardinality(DOMAIN arg.board.pieces)
        IN  /\ long_term_goals # <<>>
            /\ n > 24 => Len(long_term_goals) = 2
            /\ (10 < n /\ n <= 24) => Len(long_term_goals) = 1
            /\ n <= 10 => Len(long_term_goals) \in {1, 2}
            /\ \A i, j \in DOMAIN long_term_goals :
                 i < j => long_term_goals[i].priority >= long_term_goals[j].priority
            /\ TopStrategy = long_term_goals[1].description
            /\ (last.op = "process_request" /\ HasKey(response.raw, "strategy")) =>
                  /\ response.raw.strategy = TopStrategy
                  /\ response.raw.strategy # "No specific strategy"
            /\ (last.op = "process_request" /\ response.raw.type = "strategy_advice") =>
                  /\ response.raw.content = TopStrategy
                  /\ response.raw.content
                       # "No clear strategic goals identified for this position."

\* a recommendation on an opening position, its strategy the first of two goals
C17_Witness ==
    /\ last.op = "process_request"
    /\ last.outcome = "returned"
    /\ HasKey(response.raw, "strategy")
    /\ Cardinality(DOMAIN arg.board.pieces) > 24
    /\ Len(long_term_goals) = 2
    /\ response.raw.strategy = "Develop pieces and control the center"

====
